---- MODULE Spec2Model ----
(***************************************************************************)
(* cargo-clean-plus (src/main.rs): the duration parser, the project        *)
(* detector, the cargo-clean output parser and the directory traversal     *)
(* that folds the cleanup results into CleanupStats.                       *)
(*                                                                         *)
(* Strings are sequences of one-character strings, so that split_at,       *)
(* contains, the regular expression and the number parsers are computed    *)
(* character by character.  Sizes (f64 KiB in the source) are fixed-point  *)
(* numbers counted in 1/Scale KiB.  u64 and usize are WordBits wide.       *)
(***************************************************************************)
EXTENDS Integers, Sequences, FiniteSets, TLC

(***************************************************************************)
(* Bounds of the model.                                                    *)
(***************************************************************************)
\* Width of u64/usize in the model (64 in the build).
WordBits == 24
\* Longest --past expression enumerated by the parser specification.
MaxPastLen == 4
\* The instant SystemTime::now() returns, in seconds after the earliest
\* representable SystemTime.
NowSecs == 1000000

RECURSIVE Pow2(_)
Pow2(n) == IF n = 0 THEN 1 ELSE 2 * Pow2(n - 1)

\* u64::MAX / usize::MAX
WordMax == Pow2(WordBits) - 1

(***************************************************************************)
(* Characters.                                                             *)
(***************************************************************************)
AsciiDigit == {"0", "1", "2", "3", "4", "5", "6", "7", "8", "9"}

\* "u0663" stands for the single character U+0663 (ARABIC-INDIC DIGIT
\* THREE): a decimal digit for the regex class \d, not for str::parse.
UnicodeDigit == AsciiDigit \cup {"u0663"}

DigitVal(c) ==
    CASE c = "0" -> 0 [] c = "1" -> 1 [] c = "2" -> 2 [] c = "3" -> 3
      [] c = "4" -> 4 [] c = "5" -> 5 [] c = "6" -> 6 [] c = "7" -> 7
      [] c = "8" -> 8 [] c = "9" -> 9

(***************************************************************************)
(* Results.  tag is "Ok", "Err" or "Panic"; v is the value of an Ok.       *)
(***************************************************************************)
Ok(x) == [tag |-> "Ok", v |-> x]
Err == [tag |-> "Err", v |-> 0]
Panic == [tag |-> "Panic", v |-> 0]

(***************************************************************************)
(* str::parse::<u64>() / str::parse::<usize>(): an optional '+', then one  *)
(* or more ASCII digits, accumulated with checked arithmetic.              *)
(***************************************************************************)
RECURSIVE AccumulateDigits(_, _, _)
AccumulateDigits(s, i, acc) ==
    IF i > Len(s) THEN Ok(acc)
    ELSE IF s[i] \notin AsciiDigit THEN Err
    ELSE IF acc * 10 + DigitVal(s[i]) > WordMax THEN Err
    ELSE AccumulateDigits(s, i + 1, acc * 10 + DigitVal(s[i]))

ParseUnsigned(s) ==
    IF Len(s) = 0 THEN Err
    ELSE IF s[1] = "+"
         THEN (IF Len(s) = 1 THEN Err ELSE AccumulateDigits(s, 2, 0))
         ELSE AccumulateDigits(s, 1, 0)

(***************************************************************************)
(* TimeParser::parse_duration.  The u64 products overflow when they pass   *)
(* WordMax: a build with overflow checks panics at the first such product, *)
(* a build without them wraps.  The operator yields the set of outcomes    *)
(* the two builds can produce.                                             *)
(***************************************************************************)
UnitFactors(unit) ==
    CASE unit = "m" -> <<60>>
      [] unit = "h" -> <<60, 60>>
      [] unit = "d" -> <<60, 60, 24>>
      [] unit = "w" -> <<60, 60, 24, 7>>

RECURSIVE WrappingProduct(_, _, _)
WrappingProduct(value, fs, i) ==
    IF i > Len(fs) THEN value
    ELSE WrappingProduct((value * fs[i]) % (WordMax + 1), fs, i + 1)

RECURSIVE ProductOverflows(_, _, _)
ProductOverflows(value, fs, i) ==
    IF i > Len(fs) THEN FALSE
    ELSE IF value * fs[i] > WordMax THEN TRUE
    ELSE ProductOverflows(value * fs[i], fs, i + 1)

parse_duration(time_str) ==
    IF Len(time_str) = 0
    THEN {Panic}
    ELSE LET value == ParseUnsigned(SubSeq(time_str, 1, Len(time_str) - 1))
             unit == time_str[Len(time_str)]
         IN  IF value.tag # "Ok" THEN {Err}
             ELSE IF unit \notin {"m", "h", "d", "w"} THEN {Err}
             ELSE IF ProductOverflows(value.v, UnitFactors(unit), 1)
                  THEN {Panic, Ok(WrappingProduct(value.v, UnitFactors(unit), 1))}
                  ELSE {Ok(WrappingProduct(value.v, UnitFactors(unit), 1))}

\* SystemTime::checked_sub(duration).unwrap_or(now): None when the result
\* would lie before the earliest representable instant.
CutoffOf(t, secs) == IF secs <= t THEN t - secs ELSE t

(***************************************************************************)
(* The text cargo clean writes to stderr.                                  *)
(***************************************************************************)
\* "Removed "
RemovedLit == <<"R", "e", "m", "o", "v", "e", "d", " ">>
\* " files, "
FilesLit == <<" ", "f", "i", "l", "e", "s", ",", " ">>
\* " total"
TotalLit == <<" ", "t", "o", "t", "a", "l">>
\* "Removed 0 files"
NoOpPhrase == <<"R", "e", "m", "o", "v", "e", "d", " ", "0", " ", "f", "i", "l", "e", "s">>

KiB == <<"K", "i", "B">>
MiB == <<"M", "i", "B">>
GiB == <<"G", "i", "B">>

\* The regex class \w over the model's alphabet: letters, digits, '_'.
WordClass ==
    UnicodeDigit \cup
    {"R", "e", "m", "o", "v", "d", "f", "i", "l", "s", "t", "a",
     "K", "M", "G", "T", "B", "k", "b", "x", "_"}

HasAt(s, i, lit) ==
    /\ i + Len(lit) - 1 <= Len(s)
    /\ SubSeq(s, i, i + Len(lit) - 1) = lit

\* str::contains
Contains(s, lit) == \E i \in 1..Len(s) : HasAt(s, i, lit)

\* String::from_utf8_lossy: "xFF" stands for a byte that is not valid UTF-8,
\* "uFFFD" for the replacement character it becomes.
from_utf8_lossy(bytes) ==
    [i \in 1..Len(bytes) |-> IF bytes[i] = "xFF" THEN "uFFFD" ELSE bytes[i]]

\* The index after the longest run of characters of class that starts at i.
RECURSIVE RunEnd(_, _, _)
RunEnd(s, i, class) ==
    IF i <= Len(s) /\ s[i] \in class THEN RunEnd(s, i + 1, class) ELSE i

NoCaptures == [matched |-> FALSE, files |-> <<>>, size |-> <<>>, unit |-> <<>>]

(***************************************************************************)
(* One attempt of the pattern                                              *)
(*   Removed (?P<files>\d+) files, (?P<size>\d+(?:\.\d+)?)(?P<unit>\w+) total *)
(* at position i.  files is followed by a space, so it is the whole digit  *)
(* run; unit is followed by a space, so it is the whole \w run.  The size  *)
(* is the first success in the order the greedy quantifiers try: the       *)
(* longest integer part, then the longest fraction, then no fraction.      *)
(* ie is the index after the integer part, fe the index after the size.    *)
(***************************************************************************)
MatchAt(s, i) ==
    IF ~HasAt(s, i, RemovedLit) THEN NoCaptures
    ELSE
    LET f1 == i + Len(RemovedLit)
        f2 == RunEnd(s, f1, UnicodeDigit)
    IN  IF f2 = f1 \/ ~HasAt(s, f2, FilesLit) THEN NoCaptures
        ELSE
        LET s1 == f2 + Len(FilesLit)
            s2 == RunEnd(s, s1, UnicodeDigit)
            UnitOk(fe) ==
                LET ue == RunEnd(s, fe, WordClass)
                IN  ue > fe /\ HasAt(s, ue, TotalLit)
            FracEnds(ie) ==
                IF ie <= Len(s) /\ s[ie] = "."
                THEN (ie + 2)..RunEnd(s, ie + 1, UnicodeDigit)
                ELSE {}
            Tries == {t \in UNION {{<<ie, fe>> : fe \in FracEnds(ie) \cup {ie}} :
                                      ie \in (s1 + 1)..s2} : UnitOk(t[2])}
        IN  IF Tries = {} THEN NoCaptures
            ELSE
            LET ie == CHOOSE a \in {t[1] : t \in Tries} :
                          \A b \in {t[1] : t \in Tries} : b <= a
                fe == CHOOSE a \in {t[2] : t \in {u \in Tries : u[1] = ie}} :
                          \A b \in {t[2] : t \in {u \in Tries : u[1] = ie}} : b <= a
            IN  [matched |-> TRUE,
                 files |-> SubSeq(s, f1, f2 - 1),
                 size |-> SubSeq(s, s1, fe - 1),
                 unit |-> SubSeq(s, fe, RunEnd(s, fe, WordClass) - 1)]

\* Regex::captures: the leftmost position where the pattern matches.
captures(s) ==
    LET Starts == {i \in 1..Len(s) : MatchAt(s, i).matched}
    IN  IF Starts = {} THEN NoCaptures
        ELSE MatchAt(s, CHOOSE i \in Starts : \A j \in Starts : i <= j)

(***************************************************************************)
(* str::parse::<f64>() of a capture \d+(?:\.\d+)?, as a fixed-point number *)
(* of 1/Scale: ASCII digits only; fraction digits after the FracDigits-th  *)
(* are below the model's resolution.                                       *)
(***************************************************************************)
\* The decimals the program prints ({:.2}).
FracDigits == 2

RECURSIVE Pow10(_)
Pow10(n) == IF n = 0 THEN 1 ELSE 10 * Pow10(n - 1)

Scale == Pow10(FracDigits)

RECURSIVE DecimalValue(_, _, _)
DecimalValue(s, i, acc) ==
    IF i > Len(s) THEN acc ELSE DecimalValue(s, i + 1, acc * 10 + DigitVal(s[i]))

ParseF64(s) ==
    IF \E i \in 1..Len(s) : s[i] \notin AsciiDigit \cup {"."} THEN Err
    ELSE
    LET dot == IF \E i \in 1..Len(s) : s[i] = "."
               THEN CHOOSE i \in 1..Len(s) : s[i] = "."
               ELSE Len(s) + 1
        int == SubSeq(s, 1, dot - 1)
        frac == SubSeq(s, dot + 1, Len(s))
        kept == IF Len(frac) > FracDigits THEN SubSeq(frac, 1, FracDigits) ELSE frac
    IN  Ok(DecimalValue(int, 1, 0) * Scale
           + DecimalValue(kept, 1, 0) * Pow10(FracDigits - Len(kept)))

(***************************************************************************)
(* CargoProject::clean.  cmd is what Command::output() gave: spawned is    *)
(* FALSE when the command could not be run, success is the exit status,    *)
(* stderr the bytes captured.  The result has tag "Err", "None" (Ok(None)),*)
(* "Some" (Ok(Some((files, size_kib)))) or "Panic".                        *)
(***************************************************************************)
KibPerMib == 1024

CleanResult(t, f, k) == [tag |-> t, files |-> f, size_kib |-> k]

\* clean without the check of line 98
IsNoOpNever(output) == FALSE

\* Line 98
IsNoOp(output) == Contains(output, NoOpPhrase)

\* lines 107-112 with the factors of MiB and GiB exchanged
NormalizeUnitSwapped(size, unit) ==
    IF unit = KiB THEN Ok(size)
    ELSE IF unit = MiB THEN Ok(size * KibPerMib * KibPerMib)
    ELSE IF unit = GiB THEN Ok(size * KibPerMib)
    ELSE Panic

\* Lines 107-112: the size in KiB, or the panic of unreachable!().
NormalizeUnit(size, unit) ==
    IF unit = KiB THEN Ok(size)
    ELSE IF unit = MiB THEN Ok(size * KibPerMib)
    ELSE IF unit = GiB THEN Ok(size * KibPerMib * KibPerMib)
    ELSE Panic

clean(cmd) ==
    IF ~cmd.spawned THEN CleanResult("Err", 0, 0)
    ELSE IF ~cmd.success THEN CleanResult("None", 0, 0)
    ELSE
    LET output == from_utf8_lossy(cmd.stderr)
    IN  IF IsNoOp(output) THEN CleanResult("None", 0, 0)
        ELSE
        LET caps == captures(output)
        IN  IF ~caps.matched THEN CleanResult("Panic", 0, 0)
            ELSE
            LET files == ParseUnsigned(caps.files)
                size == ParseF64(caps.size)
            IN  IF files.tag # "Ok" THEN CleanResult("Err", 0, 0)
                ELSE IF size.tag # "Ok" THEN CleanResult("Err", 0, 0)
                ELSE IF NormalizeUnit(size.v, caps.unit).tag = "Panic"
                     THEN CleanResult("Panic", 0, 0)
                ELSE CleanResult("Some", files.v, NormalizeUnit(size.v, caps.unit).v)

(***************************************************************************)
(* The unit labels.  A printed size is [value, unit]: value in 1/Scale of  *)
(* the unit.                                                               *)
(***************************************************************************)
\* {:.2} of x / d, x in 1/Scale: rounded to the nearest 1/Scale, ties to even.
RoundDiv(x, d) ==
    LET q == x \div d
        r == x % d
    IN  IF 2 * r > d \/ (2 * r = d /\ q % 2 = 1) THEN q + 1 ELSE q

\* CleanupStats::format_size
format_size(size_kib) ==
    IF size_kib > KibPerMib * KibPerMib * Scale
    THEN [value |-> RoundDiv(size_kib, KibPerMib * KibPerMib), unit |-> GiB]
    ELSE IF size_kib > KibPerMib * Scale
    THEN [value |-> RoundDiv(size_kib, KibPerMib), unit |-> MiB]
    ELSE [value |-> size_kib, unit |-> KiB]

\* The unit label of the per-project line (line 153).
ReportUnit(size) ==
    IF size >= KibPerMib * KibPerMib * Scale THEN GiB
    ELSE IF size >= KibPerMib * Scale THEN MiB
    ELSE KiB

\* The per-project line printed by pb.println (lines 148-155).
ReportLine(d, files, size) ==
    [dir |-> d, files |-> files, value |-> size, unit |-> ReportUnit(size)]

(***************************************************************************)
(* The directory tree under the base directory.  Entries are numbered in   *)
(* the order WalkDir yields them (a directory before its contents);        *)
(* ParentOf and NameOf give the parent (0 for the base directory) and the  *)
(* file name of each.                                                      *)
(*    1 .              5 ./a/target/pkg              8 ./b                 *)
(*    2 ./a            6 ./a/target/pkg/Cargo.toml   9 ./b/Cargo.toml      *)
(*    3 ./a/Cargo.toml 7 ./a/target/pkg/target      10 ./b/target          *)
(*    4 ./a/target                                                         *)
(***************************************************************************)
ParentOf == <<0, 1, 2, 2, 4, 5, 5, 1, 8, 8>>

NameOf == <<"", "a", "Cargo.toml", "target", "pkg", "Cargo.toml", "target",
            "b", "Cargo.toml", "target">>

Entries == 1..Len(ParentOf)

RECURSIVE IsUnder(_, _)
\* n is d or lies beneath d
IsUnder(n, d) == n # 0 /\ (n = d \/ IsUnder(ParentOf[n], d))

\* The entries an initial tree may lack.
Optional == {3, 6, 9, 10}

\* The trees the traversal is run on: every entry's parent exists.
Trees ==
    {[n \in Entries |-> n \notin missing] : missing \in SUBSET Optional}

\* The tree of the output-parser specification: one project, ./a.
OneProject == [n \in Entries |-> n \in {1, 2, 3, 4}]

\* Entries for which WalkDir yields Err (filtered out by e.ok()).
WalkErrors == {{}, {5}, {8}}

VARIABLES
    pc,        \* "main", "walk", "done", "error" (main returned Err), "panic"
    past,      \* the --past expression ("0m" when the flag is absent)
    parsed,    \* what parse_duration returned
    now,       \* SystemTime::now() of line 177
    before,    \* the cutoff
    exists,    \* the tree: which entries exist
    walkErr,   \* entries WalkDir cannot read
    cursor,    \* the entry WalkDir yielded last (0 before the first)
    stats,     \* CleanupStats
    report,    \* the lines printed by pb.println
    summary,   \* the final message of the progress bar
    visits,    \* per entry: how often the loop body ran on it
    calls,     \* per entry: how often cargo clean was invoked in it
    outcome,   \* per entry: what the loop body did with it
    last       \* the details of the loop body's last run

vars == <<pc, past, parsed, now, before, exists, walkErr, cursor, stats,
          report, summary, visits, calls, outcome, last>>

(***************************************************************************)
(* CleanupStats                                                            *)
(***************************************************************************)
\* CleanupStats::new
CleanupStats == [projects |-> 0, files |-> 0, size_kib |-> 0]

\* a += b on usize: past WordMax a build with overflow checks panics, a
\* build without them wraps.
AddUsize(a, b) ==
    IF a + b > WordMax THEN {Panic, Ok((a + b) % (WordMax + 1))} ELSE {Ok(a + b)}

\* lines 144-146 without line 145
FoldStatsNoFiles(st, files, size) ==
    {IF p.tag = "Panic" THEN [tag |-> "Panic", stats |-> st]
     ELSE [tag |-> "Ok",
           stats |-> [projects |-> p.v, files |-> st.files,
                      size_kib |-> st.size_kib + size]] :
        p \in AddUsize(st.projects, 1)}

\* Lines 144-146: the outcomes of folding one Ok(Some((files, size))).
FoldStats(st, files, size) ==
    {IF p.tag = "Panic" THEN [tag |-> "Panic", stats |-> st]
     ELSE IF f.tag = "Panic"
     THEN [tag |-> "Panic", stats |-> [st EXCEPT !.projects = p.v]]
     ELSE [tag |-> "Ok",
           stats |-> [projects |-> p.v, files |-> f.v, size_kib |-> st.size_kib + size]] :
        p \in AddUsize(st.projects, 1), f \in AddUsize(st.files, files)}

(***************************************************************************)
(* CargoProject::is_valid_project                                          *)
(***************************************************************************)
\* Path::join(name).exists()
ChildExists(fs, d, name) ==
    \E c \in Entries : ParentOf[c] = d /\ NameOf[c] = name /\ fs[c]

\* is_valid_project with || for &&
is_valid_project_either(fs, d) ==
    ChildExists(fs, d, "Cargo.toml") \/ ChildExists(fs, d, "target")

is_valid_project(fs, d) ==
    ChildExists(fs, d, "Cargo.toml") /\ ChildExists(fs, d, "target")

(***************************************************************************)
(* WalkDir::new(dir).into_iter().filter_map(|e| e.ok())                    *)
(***************************************************************************)
\* An entry is yielded when it and its ancestors exist and can be read.
Listed(n) ==
    \A a \in Entries : IsUnder(n, a) => exists[a] /\ a \notin walkErr

\* An iterator that yields its last entry again.
NextEntryAgain ==
    LET rest == {n \in Entries : n >= cursor /\ Listed(n)}
    IN  IF rest = {} THEN 0 ELSE CHOOSE n \in rest : \A m \in rest : n <= m

\* The next entry of the iterator, 0 when it is exhausted.
NextEntry ==
    LET rest == {n \in Entries : n > cursor /\ Listed(n)}
    IN  IF rest = {} THEN 0 ELSE CHOOSE n \in rest : \A m \in rest : n <= m

(***************************************************************************)
(* What the program reads from outside while it handles one entry.         *)
(***************************************************************************)
\* entry.metadata()?.modified()?: a modification time, or an error.
Metadata(t) == Ok(t)

ModifiedTimes == {now - 3 * 86400, now - 3600, before, before + 1}

\* line 138 with >= for >
IsTooRecentOrEqual(modified, cutoff) == modified >= cutoff

\* line 138
IsTooRecent(modified, cutoff) == modified > cutoff

\* cargo clean removes the target directory and all beneath it.
RemoveTarget(fs, d) ==
    [n \in Entries |->
        fs[n] /\ ~\E t \in Entries :
                     ParentOf[t] = d /\ NameOf[t] = "target" /\ IsUnder(n, t)]

(***************************************************************************)
(* What cargo clean prints: "Removed <count> files, <size><unit> total".   *)
(***************************************************************************)
DigitChar(d) ==
    CASE d = 0 -> "0" [] d = 1 -> "1" [] d = 2 -> "2" [] d = 3 -> "3"
      [] d = 4 -> "4" [] d = 5 -> "5" [] d = 6 -> "6" [] d = 7 -> "7"
      [] d = 8 -> "8" [] d = 9 -> "9"

\* The decimal digits of n.
RECURSIVE Digits(_)
Digits(n) ==
    IF n < 10 THEN <<DigitChar(n)>>
    ELSE Append(Digits(n \div 10), DigitChar(n % 10))

\* The last w decimal digits of n, with leading zeros.
RECURSIVE PadDigits(_, _)
PadDigits(n, w) ==
    IF w = 0 THEN <<>> ELSE Append(PadDigits(n \div 10, w - 1), DigitChar(n % 10))

\* A size of v/Scale written with fd decimals (v a multiple of 1/10^fd).
Decimal(v, fd) ==
    Digits(v \div Scale) \o
    (IF fd = 0 THEN <<>>
     ELSE <<".">> \o PadDigits((v % Scale) \div Pow10(FracDigits - fd), fd))

\* A text with one line of the shape of the pattern.
Text(pre, count, size, unit, post) ==
    pre \o RemovedLit \o count \o FilesLit \o size \o unit \o TotalLit \o post

CargoLine(files, v, fd, unit) == Text(<<>>, Digits(files), Decimal(v, fd), unit, <<>>)

\* What Command::output() gives.  removes: cargo removed the target directory.
SpawnFailed == [spawned |-> FALSE, success |-> FALSE, stderr |-> <<>>, removes |-> FALSE]

ExitFailed(text) == [spawned |-> TRUE, success |-> FALSE, stderr |-> text, removes |-> FALSE]

Ran(text, rm) == [spawned |-> TRUE, success |-> TRUE, stderr |-> text, removes |-> rm]

\* A count of more digits than usize holds.
HugeCount == <<"9", "9", "9", "9", "9", "9", "9", "9">>

\* "error: x"
ErrorText == <<"e", "r", "r", "o", "r", ":", " ", "x">>

\* The outcomes of cargo clean the traversal is run with.
WalkOutputs ==
    {SpawnFailed,
     ExitFailed(ErrorText),
     ExitFailed(CargoLine(12, 350, 2, MiB)),
     Ran(CargoLine(12, 350, 2, MiB), TRUE),
     Ran(CargoLine(3, 102400, 2, KiB), TRUE),
     Ran(CargoLine(0, 0, 2, KiB), TRUE),
     Ran(CargoLine(0, 0, 2, KiB), FALSE),
     Ran(ErrorText, TRUE),
     Ran(Text(<<>>, HugeCount, Decimal(100, 2), KiB, <<>>), TRUE)}

\* The texts the output parser is run on.
Counts == {0, 1, 7, 12, 100}

CountStrings ==
    {Digits(n) : n \in Counts} \cup {<<"0", "0">>, <<"0", "7">>, <<"u0663">>, HugeCount}

\* <<v, fd>>: the size v/Scale written with fd decimals
SmallSizes == {<<0, 2>>, <<100, 0>>, <<300, 0>>, <<350, 1>>, <<350, 2>>, <<1225, 2>>}

LargeSizes == {<<102399, 2>>, <<102400, 0>>, <<102400, 2>>, <<104857600, 0>>, <<104857700, 2>>}

Units == {KiB, MiB, GiB}

OtherUnits == {<<>>, <<"B">>, <<"T", "i", "B">>, <<"k", "i", "b">>}

OtherSizes == {<<"3", ".">>, <<".", "5">>, <<"1", ".", "2", ".", "3">>, <<"u0663">>, <<>>}

Pres == {<<>>, <<"x", " ">>, <<"xFF", ":">>, RemovedLit \o <<"x", "!">>}

Posts == {<<>>, <<"!", "x">>}

ParserOutputs ==
    {Ran(Text(pre, c, Decimal(z[1], z[2]), u, post), TRUE) :
        pre \in Pres, c \in CountStrings, z \in SmallSizes, u \in Units \cup OtherUnits,
        post \in Posts}
    \cup
    {Ran(Text(pre, c, Decimal(z[1], z[2]), KiB, post), TRUE) :
        pre \in Pres, c \in CountStrings, z \in LargeSizes, post \in Posts}
    \cup
    {Ran(Text(<<>>, c, z, u, <<>>), TRUE) :
        c \in CountStrings, z \in OtherSizes, u \in Units}
    \cup
    {Ran(<<>>, TRUE), Ran(ErrorText, TRUE), Ran(RemovedLit, TRUE),
     Ran(RemovedLit \o <<"1", "2">> \o FilesLit \o <<"3">> \o KiB, TRUE),
     Ran(CargoLine(12, 350, 2, MiB) \o <<"!">> \o CargoLine(0, 0, 2, KiB), TRUE),
     Ran(CargoLine(7, 100, 0, GiB) \o <<"!">> \o CargoLine(12, 350, 2, MiB), TRUE),
     ExitFailed(CargoLine(12, 350, 2, MiB)), SpawnFailed}

(***************************************************************************)
(* The initial states.                                                     *)
(***************************************************************************)
NoCmd == [spawned |-> FALSE, success |-> FALSE, stderr |-> <<>>, removes |-> FALSE]

\* The metadata was not asked for.
NoMeta == [tag |-> "-", v |-> 0]

NoResult == CleanResult("-", 0, 0)

NoLast ==
    [dir |-> 0, meta |-> NoMeta, class |-> "-", invoked |-> FALSE, cmd |-> NoCmd,
     result |-> NoResult]

NoOutcome ==
    [class |-> "-", manifest |-> FALSE, target |-> FALSE, tag |-> "-", files |-> 0,
     size_kib |-> 0]

NoSummary == [shown |-> FALSE, projects |-> 0, files |-> 0, size |-> format_size(0)]

InitWith(pasts, trees, errs) ==
    /\ pc = "main"
    /\ past \in pasts
    /\ parsed = [tag |-> "None", v |-> 0]
    /\ now = NowSecs
    /\ before = 0
    /\ exists \in trees
    /\ walkErr \in errs
    /\ cursor = 0
    /\ stats = CleanupStats
    /\ report = <<>>
    /\ summary = NoSummary
    /\ visits = [n \in Entries |-> 0]
    /\ calls = [n \in Entries |-> 0]
    /\ outcome = [n \in Entries |-> NoOutcome]
    /\ last = NoLast

\* The default of --past (line 174).
DefaultPast == <<"0", "m">>

\* --past expressions the traversal is run with.
WalkPasts == {DefaultPast, <<"2", "d">>, <<"9", "9", "w">>, <<"1", "x">>, <<>>}

Init == InitWith(WalkPasts, Trees, WalkErrors)

(***************************************************************************)
(* main, lines 171-178, up to the call of process_directory.               *)
(***************************************************************************)
Main ==
    /\ pc = "main"
    /\ \E r \in parse_duration(past) :
          /\ parsed' = r
          /\ pc' = CASE r.tag = "Ok" -> "walk"
                     [] r.tag = "Err" -> "error"
                     [] r.tag = "Panic" -> "panic"
          /\ before' = IF r.tag = "Ok" THEN CutoffOf(now, r.v) ELSE before
    /\ UNCHANGED <<past, now, exists, walkErr, cursor, stats, report, summary,
                   visits, calls, outcome, last>>

(***************************************************************************)
(* process_directory: one run of the loop body (lines 128-157) per entry   *)
(* the iterator yields, then the final message (lines 159-167).            *)
(***************************************************************************)
\* The bookkeeping of one run of the loop body on entry d.
Visited(d, class, meta, cmd, result) ==
    /\ cursor' = d
    /\ visits' = [visits EXCEPT ![d] = @ + 1]
    /\ calls' = [calls EXCEPT ![d] = IF class = "Eligible" THEN @ + 1 ELSE @]
    /\ outcome' = [outcome EXCEPT ![d] =
                      [class |-> class,
                       manifest |-> ChildExists(exists, d, "Cargo.toml"),
                       target |-> ChildExists(exists, d, "target"),
                       tag |-> result.tag, files |-> result.files,
                       size_kib |-> result.size_kib]]
    /\ last' = [dir |-> d, meta |-> meta, class |-> class,
                invoked |-> class = "Eligible", cmd |-> cmd, result |-> result]

\* Lines 133-135: not a project.
SkipNotProject ==
    /\ pc = "walk"
    /\ LET d == NextEntry
       IN  /\ d # 0
           /\ ~is_valid_project(exists, d)
           /\ Visited(d, "NotAProject", NoMeta, NoCmd, NoResult)
    /\ UNCHANGED <<pc, past, parsed, now, before, exists, walkErr, stats, report, summary>>

\* Line 137: metadata() or modified() fails and ? returns the error.
MetadataFails ==
    /\ pc = "walk"
    /\ LET d == NextEntry
       IN  /\ d # 0
           /\ is_valid_project(exists, d)
           /\ Visited(d, "MetaErr", Err, NoCmd, NoResult)
    /\ pc' = "error"
    /\ UNCHANGED <<past, parsed, now, before, exists, walkErr, stats, report, summary>>

\* Lines 137-141: modified after the cutoff.
SkipTooRecent ==
    /\ pc = "walk"
    /\ LET d == NextEntry
       IN  /\ d # 0
           /\ is_valid_project(exists, d)
           /\ \E t \in ModifiedTimes :
                 /\ IsTooRecent(t, before)
                 /\ Visited(d, "TooRecent", Metadata(t), NoCmd, NoResult)
    /\ UNCHANGED <<pc, past, parsed, now, before, exists, walkErr, stats, report, summary>>

\* Line 143 on: what the loop body does with the result r of clean():
\* Ok(Some(..)) is folded and reported, a panic unwinds, Ok(None) and Err
\* leave everything as it is.
Folded(st, r) ==
    IF r.tag = "Some" THEN FoldStats(st, r.files, r.size_kib)
    ELSE {[tag |-> IF r.tag = "Panic" THEN "Panic" ELSE "Skip", stats |-> st]}

\* Lines 143-156: cargo clean is run and its result folded.
CleanProject(Outputs) ==
    /\ pc = "walk"
    /\ LET d == NextEntry
       IN  /\ d # 0
           /\ is_valid_project(exists, d)
           /\ \E cmd \in Outputs :
                 LET r == clean(cmd)
                 IN  /\ exists' = IF cmd.removes THEN RemoveTarget(exists, d) ELSE exists
                     /\ \E o \in Folded(stats, r) :
                           /\ stats' = o.stats
                           /\ report' = IF o.tag = "Ok"
                                        THEN Append(report, ReportLine(d, r.files, r.size_kib))
                                        ELSE report
                           /\ pc' = IF o.tag = "Panic" THEN "panic" ELSE pc
                     /\ \E t \in ModifiedTimes :
                           /\ ~IsTooRecent(t, before)
                           /\ Visited(d, "Eligible", Metadata(t), cmd, r)
    /\ UNCHANGED <<past, parsed, now, before, walkErr, summary>>

\* Lines 159-167 and 180-181: the iterator is exhausted.
Finish ==
    /\ pc = "walk"
    /\ NextEntry = 0
    /\ pc' = "done"
    /\ summary' = [shown |-> TRUE, projects |-> stats.projects, files |-> stats.files,
                   size |-> format_size(stats.size_kib)]
    /\ UNCHANGED <<past, parsed, now, before, exists, walkErr, cursor, stats, report,
                   visits, calls, outcome, last>>

\* The exit status of the process.
ExitCode ==
    CASE pc = "done" -> 0
      [] pc = "error" -> 1
      [] pc = "panic" -> 101
      [] OTHER -> -1

Next ==
    \/ Main
    \/ SkipNotProject
    \/ MetadataFails
    \/ SkipTooRecent
    \/ CleanProject(WalkOutputs)
    \/ Finish

Spec == Init /\ [][Next]_vars

\* The duration parser on every expression of up to MaxPastLen characters.
PastChars == {"0", "1", "2", "9", "m", "h", "d", "w", "x", "+"}

RECURSIVE StringsUpTo(_, _)
StringsUpTo(chars, n) ==
    IF n = 0 THEN {<<>>}
    ELSE LET shorter == StringsUpTo(chars, n - 1)
         IN  shorter \cup {Append(s, c) : s \in shorter, c \in chars}

InitDuration == InitWith(StringsUpTo(PastChars, MaxPastLen), {OneProject}, {{}})

NextDuration == Main

SpecDuration == InitDuration /\ [][NextDuration]_vars

\* The output parser on every text of ParserOutputs.
InitClean == InitWith({DefaultPast}, {OneProject}, {{}})

NextClean ==
    \/ Main
    \/ SkipNotProject
    \/ MetadataFails
    \/ SkipTooRecent
    \/ CleanProject(ParserOutputs)
    \/ Finish

SpecClean == InitClean /\ [][NextClean]_vars

(***************************************************************************)
(* The properties.                                                         *)
(***************************************************************************)
Cleaned == {d \in Entries : outcome[d].tag = "Some"}

RECURSIVE SumOf(_, _)
SumOf(S, f) ==
    IF S = {} THEN 0
    ELSE LET d == CHOOSE x \in S : TRUE
         IN  outcome[d][f] + SumOf(S \ {d}, f)

\* C1: cargo clean is invoked in a directory only if the directory held
\* both Cargo.toml and target when it was examined; a directory lacking
\* either is classified NotAProject and never cleaned.
C1_OnlyProjectsCleaned ==
    \A d \in Entries :
        /\ calls[d] > 0 => outcome[d].manifest /\ outcome[d].target
        /\ (visits[d] > 0 /\ ~(outcome[d].manifest /\ outcome[d].target)) =>
              outcome[d].class = "NotAProject" /\ calls[d] = 0

\* C1 witness: ./a was cleaned, and ./b, which holds Cargo.toml and no
\* target, was examined and left alone.
C1_Witness ==
    /\ calls[2] = 1
    /\ exists[9] /\ ~exists[10]
    /\ outcome[8].class = "NotAProject" /\ outcome[8].manifest
    /\ calls[8] = 0

\* C2: a directory with both markers whose modification time is after the
\* cutoff is TooRecent and never cleaned; one modified at or before the
\* cutoff is Eligible and cargo clean is invoked on it.  With "0m" the
\* cutoff is the instant the run started, with "2d" two days before it.
C2_RecencyFilter ==
    /\ (last.dir # 0 /\ outcome[last.dir].manifest /\ outcome[last.dir].target
          /\ last.meta.tag = "Ok") =>
          /\ last.meta.v > before =>
                last.class = "TooRecent" /\ ~last.invoked /\ calls[last.dir] = 0
          /\ last.meta.v <= before =>
                last.class = "Eligible" /\ last.invoked /\ calls[last.dir] = 1
    /\ \A d \in Entries : outcome[d].class = "TooRecent" => calls[d] = 0
    /\ (past = DefaultPast /\ pc # "main") => parsed.tag = "Ok" /\ before = now
    /\ (past = <<"2", "d">> /\ pc # "main") =>
          parsed.tag = "Ok" /\ before = now - 2 * 86400

\* C2 witness: with "2d", ./a (modified an hour ago) was skipped as too
\* recent and ./b, modified exactly at the cutoff, was cleaned.
C2_Witness ==
    /\ past = <<"2", "d">>
    /\ outcome[2].class = "TooRecent" /\ calls[2] = 0
    /\ last.dir = 8 /\ last.meta = Ok(before) /\ last.invoked /\ calls[8] = 1

StatsAreSums ==
    /\ stats.projects = Cardinality(Cleaned)
    /\ stats.files = SumOf(Cleaned, "files")
    /\ stats.size_kib = SumOf(Cleaned, "size_kib")
    /\ pc = "done" =>
          /\ summary.projects = Cardinality(Cleaned)
          /\ summary.files = SumOf(Cleaned, "files")
          /\ summary.size = format_size(SumOf(Cleaned, "size_kib"))

StatsGrow ==
    /\ stats'.projects >= stats.projects
    /\ stats'.files >= stats.files
    /\ stats'.size_kib >= stats.size_kib

\* C3: at every point of the run stats.projects is the number of cleaned
\* candidates and stats.files, stats.size_kib are the sums of their files
\* and sizes (so is the final summary), and the totals never decrease.
C3_StatsAreSums == []StatsAreSums /\ [][StatsGrow]_vars

\* C3 witness: ./a reported "Removed 12 files, 3.50MiB total", ./b has no
\* target; the run ends with 1 project, 12 files, 3584.00 KiB.
C3_Witness ==
    /\ pc = "done"
    /\ outcome[2].tag = "Some" /\ outcome[2].files = 12
    /\ outcome[2].size_kib = 350 * KibPerMib
    /\ outcome[8].class = "NotAProject" /\ ~exists[10]
    /\ summary.shown /\ summary.projects = 1 /\ summary.files = 12
    /\ stats.size_kib = 3584 * Scale
    /\ summary.size = [value |-> 350, unit |-> MiB]

\* C4 (as claimed): when the metadata of a directory with both markers
\* cannot be obtained, cargo clean is still invoked on it and the run is
\* not aborted.
C4_FailOpen ==
    (last.dir # 0 /\ outcome[last.dir].manifest /\ outcome[last.dir].target
       /\ last.meta.tag = "Err") =>
       last.invoked /\ pc \notin {"error", "panic"}

\* The candidate of record l (with per-entry record o) had one of the
\* outcomes NotAProject, TooRecent, invocation failure, NoOp.
SkipCase(l, o, cutoff) ==
    \/ ~(o.manifest /\ o.target)
    \/ l.meta.tag = "Ok" /\ l.meta.v > cutoff
    \/ l.invoked /\ (~l.cmd.spawned \/ ~l.cmd.success)
    \/ l.invoked /\ l.cmd.spawned /\ l.cmd.success /\ Contains(l.cmd.stderr, NoOpPhrase)

\* C5: a candidate that is not a project, is too recent, whose cargo clean
\* could not be run or failed, or printed "Removed 0 files", leaves the
\* totals as they are, prints no line and lets the traversal go on.
C5_SkipsChangeNothing ==
    [][(visits' # visits /\ SkipCase(last', outcome'[last'.dir], before)) =>
          /\ stats' = stats
          /\ report' = report
          /\ summary' = summary
          /\ pc' = "walk"]_vars

\* C5 witness: ./a was too recent, ./b printed "Removed 0 files, 0.00KiB
\* total"; nothing was counted or printed and the traversal goes on.
C5_Witness ==
    /\ outcome[2].class = "TooRecent"
    /\ last.dir = 8 /\ last.invoked
    /\ last.cmd.stderr = CargoLine(0, 0, 2, KiB) /\ last.cmd.success
    /\ last.result.tag = "None"
    /\ stats = CleanupStats /\ report = <<>> /\ pc = "walk"

\* The text yields a count, a size and a recognized unit through the pattern.
Yields(text) ==
    LET caps == captures(text)
    IN  /\ caps.matched
        /\ ParseUnsigned(caps.files).tag = "Ok"
        /\ ParseF64(caps.size).tag = "Ok"
        /\ caps.unit \in Units

\* C6 (as claimed): when cargo clean succeeds and its text neither holds
\* the no-op phrase nor yields count, size and unit, the run is aborted.
C6_MismatchAborts ==
    (last.invoked /\ last.cmd.spawned /\ last.cmd.success
       /\ ~Contains(from_utf8_lossy(last.cmd.stderr), NoOpPhrase)
       /\ ~Yields(from_utf8_lossy(last.cmd.stderr))) =>
       pc = "panic"

\* A non-negative integer followed by one of m, h, d, w.
ValidExpression(e) ==
    /\ Len(e) >= 2
    /\ \A i \in 1..(Len(e) - 1) : e[i] \in AsciiDigit
    /\ e[Len(e)] \in {"m", "h", "d", "w"}

SecondsPer(unit) ==
    CASE unit = "m" -> 60 [] unit = "h" -> 3600 [] unit = "d" -> 86400
      [] unit = "w" -> 604800

\* C7 (as claimed): a valid expression n<u> parses to exactly n times the
\* seconds of u; every other input fails with an error result and the
\* traversal never starts.
C7_ParseDuration ==
    pc # "main" =>
        IF ValidExpression(past)
        THEN parsed = Ok(DecimalValue(SubSeq(past, 1, Len(past) - 1), 1, 0)
                         * SecondsPer(past[Len(past)]))
        ELSE parsed = Err /\ pc = "error"

\* The texts with a line of the pattern's shape, an ASCII count and a unit
\* of KiB, MiB, GiB: <<text, count, size (1/Scale of the unit), unit>>.
AsciiCounts == {c \in CountStrings : \A i \in 1..Len(c) : c[i] \in AsciiDigit}

PatternTexts ==
    {<<Text(pre, c, Decimal(z[1], z[2]), u, post), DecimalValue(c, 1, 0), z[1], u>> :
        pre \in Pres, c \in AsciiCounts, z \in SmallSizes, u \in Units, post \in Posts}
    \cup
    {<<Text(pre, c, Decimal(z[1], z[2]), KiB, post), DecimalValue(c, 1, 0), z[1], KiB>> :
        pre \in Pres, c \in AsciiCounts, z \in LargeSizes, post \in Posts}

UnitFactor(unit) ==
    IF unit = KiB THEN 1 ELSE IF unit = MiB THEN KibPerMib ELSE KibPerMib * KibPerMib

\* clean returned the count and the normalized size of pattern text m.
ParsedAs(m) ==
    last.result = CleanResult("Some", m[2], m[3] * UnitFactor(m[4]))

C9_OncePerDirectory ==
    /\ \A d \in Entries :
          /\ visits[d] <= 1
          /\ calls[d] <= 1
          /\ d > cursor => visits[d] = 0 /\ outcome[d] = NoOutcome
    /\ Len(report) = Cardinality(Cleaned)
    /\ \A i \in 1..Len(report) : report[i].dir <= cursor
    /\ (pc \in {"error", "panic"} /\ parsed.tag = "Ok") =>
          last.class = "MetaErr" \/ last.result.tag = "Panic"
    /\ pc = "done" => \A d \in Entries : Listed(d) => visits[d] = 1

\* C9 witness: ./a was cleaned and its target directory vanished with the
\* directories beneath it, which were never examined; the run went on to
\* ./b, cleaned it, and ended.
C9_Witness ==
    /\ pc = "done"
    /\ calls[2] = 1 /\ ~exists[4] /\ ~exists[5] /\ ~exists[7]
    /\ visits[5] = 0 /\ visits[8] = 1 /\ outcome[8].class = "Eligible"

\* C10 (as claimed): the value of a printed line, read in the line's unit,
\* is the size folded into the totals, and the unit is the one format_size
\* chooses for that size.
C10_LineDenotesSize ==
    \A i \in 1..Len(report) :
        /\ report[i].value * UnitFactor(report[i].unit) = outcome[report[i].dir].size_kib
        /\ report[i].unit = format_size(outcome[report[i].dir].size_kib).unit

====
